---- MODULE Spec2Model ----
EXTENDS Integers, Sequences, FiniteSets, TLC

\* ------------------------------------------------------------------
\* Account metrics (compute_trade_metrics and the wallet-menu / PnL
\* replies built from them).  An account field is <<n>> for a number n
\* or <<>> for an absent or empty figure.
\* ------------------------------------------------------------------

MaxPos == 1
FieldVals == {<<>>, <<-2>>, <<3>>}
UplVals == {-1, 2}

\* f(key) in compute_trade_metrics: float(acc.get(key) or 0)
F(v) == IF v = <<>> THEN 0 ELSE v[1]

Max0Unclamped(x) == x

Max0(x) == IF x > 0 THEN x ELSE 0

RECURSIVE SumSeq(_)
SumSeq(s) == IF s = <<>> THEN 0 ELSE Head(s) + SumSeq(Tail(s))

Snapshots == [twb : FieldVals, te : FieldVals, tmb : FieldVals, tab : FieldVals,
              tpim : FieldVals, tim : FieldVals, toim : FieldVals, tmm : FieldVals]

UplLists == UNION {[1..n -> UplVals] : n \in 0..MaxPos}

compute_trade_metrics(acc, upls) ==
    LET wallet_balance == F(acc.twb)
        equity == F(acc.te)
        margin_balance == F(acc.tmb)
        available_margin == F(acc.tab)
        position_im0 == F(acc.tpim)
        initial_margin == F(acc.tim)
        order_im == F(acc.toim)
        maintenance == F(acc.tmm)
        position_im == IF position_im0 <= 0 THEN initial_margin ELSE position_im0
        assets_now == IF margin_balance > 0 THEN margin_balance ELSE equity
        pnl_open == IF upls # <<>> THEN SumSeq(upls) ELSE 0
    IN [wallet_balance |-> wallet_balance,
        assets_now |-> assets_now,
        available_margin |-> available_margin,
        used |-> Max0(assets_now - available_margin),
        pnl_open |-> pnl_open,
        capital_cost |-> assets_now - pnl_open,
        capital_free_real |-> Max0(wallet_balance - position_im - order_im - maintenance),
        equity_mtm |-> wallet_balance + pnl_open]

VARIABLES snap, upls, startw, mpc, met, shown

mvars == <<snap, upls, startw, mpc, met, shown>>

\* Monetary figures of the three replies, by reply and label.
fn_free_balance_figures(m) ==
    [available |-> Max0(m.available_margin),
     buffer |-> Max0(m.capital_free_real),
     wallet |-> m.wallet_balance,
     assets |-> m.assets_now]

fn_in_trade_cost_figures(m) ==
    [cost_basis |-> m.capital_cost,
     equity_mtm |-> m.equity_mtm,
     available_margin |-> m.available_margin,
     used |-> m.used]

\* fn_pnl: baseline is a wallet balance stored earlier for the month.
fn_pnl_figures(m, start) ==
    [baseline |-> start,
     current_equity |-> m.equity_mtm]

\* compute_mtd_pnl_for_user: pct = (now - start) / start * 100 if start > 0
\* else 0.0, kept exact as the fraction num / den.
MtdPctNoGuard(start, now) ==
    IF start >= 0 THEN [num |-> (now - start) * 100, den |-> start] ELSE [num |-> 0, den |-> 1]

MtdPct(start, now) ==
    IF start > 0 THEN [num |-> (now - start) * 100, den |-> start] ELSE [num |-> 0, den |-> 1]

MInit == /\ snap \in Snapshots
         /\ upls \in UplLists
         /\ startw \in {F(v) : v \in FieldVals}
         /\ mpc = "init"
         /\ met = [none |-> TRUE]
         /\ shown = [none |-> TRUE]

ComputeMetrics ==
    /\ mpc = "init"
    /\ mpc' = "computed"
    /\ met' = compute_trade_metrics(snap, upls)
    /\ UNCHANGED <<snap, upls, startw, shown>>

ShowReplies ==
    /\ mpc = "computed"
    /\ mpc' = "shown"
    /\ shown' = [free |-> fn_free_balance_figures(met),
                 trade |-> fn_in_trade_cost_figures(met),
                 pnl |-> fn_pnl_figures(met, startw),
                 pct |-> MtdPct(startw, met.equity_mtm)]
    /\ UNCHANGED <<snap, upls, startw, met>>



\* C1: for every account snapshot and position list, compute_trade_metrics
\* returns capital_free_real >= 0 and used >= 0.
MetricsClamped ==
    mpc # "init" => (met.capital_free_real >= 0 /\ met.used >= 0)

\* The raw differences the clamps act on are negative.
MetricsClampedWitness ==
    /\ mpc # "init"
    /\ F(snap.twb) - F(snap.toim) - F(snap.tmm) < 0
    /\ F(snap.tab) > met.assets_now

\* C2: every monetary figure of the wallet-menu and PnL
\* replies is >= 0.
AllShownFiguresNonNeg ==
    mpc = "shown" =>
        /\ \A k \in DOMAIN shown.free : shown.free[k] >= 0
        /\ \A k \in DOMAIN shown.trade : shown.trade[k] >= 0
        /\ \A k \in DOMAIN shown.pnl : shown.pnl[k] >= 0

\* ------------------------------------------------------------------
\* Update polling (telegram_get_updates and the batch loop of main).
\* The server numbers updates increasingly, possibly with gaps; a
\* getUpdates call returns, in increasing order, a prefix of the
\* updates numbered >= offset (all unconfirmed ones while no offset
\* was sent), or fails ({"ok": false}, e.g. 409) and returns [].
\* ------------------------------------------------------------------

MaxId == 4

VARIABLES produced, nextId, offset, hasOffset, batch, ppc, lastBatch, dispatched

pvars == <<produced, nextId, offset, hasOffset, batch, ppc, lastBatch, dispatched>>

SetToSortedSeq(S) ==
    LET n == Cardinality(S)
    IN [i \in 1..n |-> CHOOSE x \in S : Cardinality({y \in S : y < x}) = i - 1]

\* telegram_get_updates, offset update: updates[-1]["update_id"] + 1
telegram_get_updates_offset_first(off, has, updates) ==
    IF updates # <<>> THEN updates[1] + 1 ELSE off

telegram_get_updates_offset(off, has, updates) ==
    IF updates # <<>> THEN updates[Len(updates)] + 1 ELSE off

PInit == /\ produced = {}
         /\ nextId = 1
         /\ offset = 0
         /\ hasOffset = FALSE
         /\ batch = <<>>
         /\ ppc = "poll"
         /\ lastBatch = <<>>
         /\ dispatched = <<>>

\* A user event reaches the server and gets the next update_id.
NewUpdate ==
    /\ \E gap \in {0, 1} :
         /\ nextId + gap <= MaxId
         /\ produced' = produced \cup {nextId + gap}
         /\ nextId' = nextId + gap + 1
    /\ UNCHANGED <<offset, hasOffset, batch, ppc, lastBatch, dispatched>>

\* getUpdates succeeds: "ok" with a list of updates.
PollOk ==
    /\ ppc = "poll"
    /\ LET avail == SetToSortedSeq({i \in produced : ~hasOffset \/ i >= offset})
       IN \E n \in 0..Len(avail) :
            LET updates == SubSeq(avail, 1, n)
            IN /\ offset' = telegram_get_updates_offset(offset, hasOffset, updates)
               /\ hasOffset' = (hasOffset \/ updates # <<>>)
               /\ batch' = updates
               /\ lastBatch' = updates
               /\ ppc' = "dispatch"
    /\ UNCHANGED <<produced, nextId, dispatched>>

\* getUpdates answers {"ok": false} (409 conflict or other error).
PollFail ==
    /\ ppc = "poll"
    /\ batch' = <<>>
    /\ lastBatch' = <<>>
    /\ ppc' = "dispatch"
    /\ UNCHANGED <<produced, nextId, offset, hasOffset, dispatched>>

\* One iteration of `for upd in updates`.
DispatchUpdate ==
    /\ ppc = "dispatch"
    /\ batch # <<>>
    /\ dispatched' = Append(dispatched, Head(batch))
    /\ batch' = Tail(batch)
    /\ UNCHANGED <<produced, nextId, offset, hasOffset, ppc, lastBatch>>

\* A handler raised (a requests exception, a reply that is not JSON):
\* the exception leaves `for upd in updates` (caught at the end of the
\* loop body), the rest of the batch is never dispatched.
HandlerRaises ==
    /\ ppc = "dispatch"
    /\ batch # <<>>
    /\ Len(batch) < Len(lastBatch)
    /\ batch' = <<>>
    /\ ppc' = "poll"
    /\ UNCHANGED <<produced, nextId, offset, hasOffset, lastBatch, dispatched>>

\* Batch done: BTC alert check and sleep, then poll again.
EndIteration ==
    /\ ppc = "dispatch"
    /\ batch = <<>>
    /\ ppc' = "poll"
    /\ UNCHANGED <<produced, nextId, offset, hasOffset, batch, lastBatch, dispatched>>



\* Metrics variables held at an empty snapshot while polling is checked.
MIdle == /\ snap = [twb |-> <<>>, te |-> <<>>, tmb |-> <<>>, tab |-> <<>>,
                     tpim |-> <<>>, tim |-> <<>>, toim |-> <<>>, tmm |-> <<>>]
         /\ upls = <<>>
         /\ startw = 0
         /\ mpc = "init"
         /\ met = [none |-> TRUE]
         /\ shown = [none |-> TRUE]


\* C4: after a successful non-empty poll whose highest update_id is N the
\* offset is N + 1, already before the first event of the batch is
\* dispatched; across polls the offset only ever increases strictly.
OffsetAfterBatch ==
    ppc = "dispatch" /\ lastBatch # <<>> =>
        /\ hasOffset
        /\ \A i \in DOMAIN lastBatch : lastBatch[i] < offset
        /\ \E i \in DOMAIN lastBatch : lastBatch[i] + 1 = offset

OffsetMonotone ==
    (hasOffset /\ offset' # offset) => offset' > offset

PollOffsetCorrect ==
    /\ []OffsetAfterBatch
    /\ [][OffsetMonotone]_pvars

PollOffsetWitness ==
    /\ ppc = "dispatch"
    /\ Len(lastBatch) >= 2
    /\ batch = lastBatch
    /\ lastBatch[1] + 1 < lastBatch[2]
    /\ dispatched # <<>>

\* ------------------------------------------------------------------
\* Event handling of main(): messages, callbacks, the /wallet context
\* map and the month-to-date baseline file.  Texts are sequences of
\* characters; bot.py sends all requests through tg_post / sign_get,
\* whose replies succeed, fail ("ok": false / retCode != 0) or raise (a
\* requests exception or a body that is not JSON).  An exception leaves
\* the handler (raised = TRUE) and ends the batch (HandlerRaises); a
\* raising sendMessage is recorded as an attempted, unsent reply
\* (ok = FALSE).
\* ------------------------------------------------------------------

MaxEvents == 3
MaxMonth == 2

Users == {1, 2}
\* USERS = load_users() at startup: the users with BYBIT_USER_i_*
\* credentials; user 2 may or may not have them
UserSets == {{1}, {1, 2}}
Chats == {"c1", "c2"}
\* TELEGRAM_CHAT_ID: "" when unset
ChatLimits == {"", "c1"}
Wallets == {2, 5}

T_ID == <<"/", "I", "D">>
T_commands == <<"/", "c", "o", "m", "m", "a", "n", "d", "s">>
T_pnl == <<"/", "p", "n", "l">>
T_Wallet == <<"/", "W", "a", "l", "l", "e", "t", " ">>
T_hi == <<"h", "i">>
Texts == {T_ID, T_pnl, T_Wallet, T_hi}

P_commands == <<"/", "c", "o", "m", "m", "a", "n", "d", "s">>
P_comandos == <<"/", "c", "o", "m", "a", "n", "d", "o", "s">>
P_ids == <<"/", "i", "d", "s">>
P_id == <<"/", "i", "d">>
P_pnl == <<"/", "p", "n", "l">>
P_mensal == <<"/", "m", "e", "n", "s", "a", "l">>
P_wallet == <<"/", "w", "a", "l", "l", "e", "t">>
P_saldo == <<"/", "s", "a", "l", "d", "o">>

CbTokens == {"pos:open", "cap:free", "pos:close"}

\* Outcome of one tg_post("sendMessage", ...): ok, "ok": false, or an
\* exception (requests error, or a reply that is not JSON).
SendOutcomes == {"ok", "fail", "raise"}

UpperLetters == <<"A", "B", "C", "D", "E", "F", "G", "H", "I", "J", "K", "L", "M",
                  "N", "O", "P", "Q", "R", "S", "T", "U", "V", "W", "X", "Y", "Z">>
LowerLetters == <<"a", "b", "c", "d", "e", "f", "g", "h", "i", "j", "k", "l", "m",
                  "n", "o", "p", "q", "r", "s", "t", "u", "v", "w", "x", "y", "z">>

LowerChar(c) ==
    IF \E i \in 1..26 : UpperLetters[i] = c
    THEN LowerLetters[CHOOSE i \in 1..26 : UpperLetters[i] = c]
    ELSE c

\* str.lower()
Lower(t) == [i \in DOMAIN t |-> LowerChar(t[i])]

RECURSIVE StripLeft(_), StripRight(_)
StripLeft(t) == IF t # <<>> /\ Head(t) = " " THEN StripLeft(Tail(t)) ELSE t
StripRight(t) == IF t # <<>> /\ t[Len(t)] = " " THEN StripRight(SubSeq(t, 1, Len(t) - 1)) ELSE t

\* str.strip()
Strip(t) == StripRight(StripLeft(t))

\* str.startswith(p)
StartsWith(t, p) == Len(p) <= Len(t) /\ SubSeq(t, 1, Len(p)) = p

IsCommandsCmd(tl) == StartsWith(tl, P_commands) \/ StartsWith(tl, P_comandos)
IsIdsCmd(tl) == StartsWith(tl, P_ids) \/ StartsWith(tl, P_id)
IsPnlCmd(tl) == StartsWith(tl, P_pnl) \/ StartsWith(tl, P_mensal)
IsWalletCmd(tl) == StartsWith(tl, P_wallet) \/ StartsWith(tl, P_saldo)

\* text_l = (msg.get("text") or "").strip().lower(), per input text
TextL == [t \in Texts |-> Lower(Strip(t))]

\* Texts by the first branch of main() they reach.
CommandsOrIdsTexts == {t \in Texts : IsCommandsCmd(TextL[t]) \/ IsIdsCmd(TextL[t])}
PnlTexts == {t \in Texts : ~IsCommandsCmd(TextL[t]) /\ ~IsIdsCmd(TextL[t]) /\ IsPnlCmd(TextL[t])}
WalletTexts == {t \in Texts : ~IsCommandsCmd(TextL[t]) /\ ~IsIdsCmd(TextL[t]) /\ ~IsPnlCmd(TextL[t])
                               /\ IsWalletCmd(TextL[t])}
OtherTexts == Texts \ (CommandsOrIdsTexts \cup PnlTexts \cup WalletTexts)

\* Chat limit of main(): TELEGRAM_CHAT_ID and chat_id != str(TELEGRAM_CHAT_ID)
ChatBlockedNone(limit, chat) == FALSE

ChatBlocked(limit, chat) == limit # "" /\ chat # limit

\* One user's entry of monthly_snapshot.json.  month = 0 stands for a
\* missing "month" key, present = FALSE for a missing user key.
NoRecord == [present |-> FALSE, month |-> 0, hasSW |-> FALSE, sw |-> 0, hasSE |-> FALSE, se |-> 0]
\* Records as written by this code ({"month", "start_wallet"}) or by the
\* earlier layout ({"month", "start_equity"}) that the code migrates.
InitRecords ==
    {NoRecord}
    \cup {[present |-> TRUE, month |-> 1, hasSW |-> TRUE, sw |-> 5, hasSE |-> FALSE, se |-> 0],
           [present |-> TRUE, month |-> 1, hasSW |-> FALSE, sw |-> 0, hasSE |-> TRUE, se |-> 2]}

\* compute_mtd_pnl_for_user, baseline part: the user's record after the
\* call and the start value it returns, for month key `month` and the
\* current wallet balance w.
MtdRecord(rec, month) ==
    LET r0 == IF rec.present THEN rec ELSE [NoRecord EXCEPT !.present = TRUE]
        r1 == IF r0.month = month /\ ~r0.hasSW /\ r0.hasSE
              THEN [r0 EXCEPT !.hasSW = TRUE, !.sw = r0.se] ELSE r0
    IN r1

MtdNewMonth(rec, month, w) ==
    IF rec.month # month
    THEN [present |-> TRUE, month |-> month, hasSW |-> TRUE, sw |-> w, hasSE |-> FALSE, se |-> 0]
    ELSE rec

compute_mtd_baseline_always(rec, month, w) ==
    [present |-> TRUE, month |-> month, hasSW |-> TRUE, sw |-> w, hasSE |-> FALSE, se |-> 0]

compute_mtd_baseline(rec, month, w) == MtdNewMonth(MtdRecord(rec, month), month, w)

MtdStart(rec, w) == IF rec.hasSW THEN rec.sw ELSE w

NoCtx == [present |-> FALSE, cmd |-> 0, menu |-> 0, chat |-> ""]
NoEvent == [kind |-> "none", chat |-> "", user |-> 0, text |-> <<>>, data |-> ""]
NoPnl == [month |-> 0, start |-> 0, wallet |-> 0]

VARIABLES chatLimit, USERS, wallet_context, store, month, nextMid, nEv,
          ev, sends, answers, exCall, cleanup, cleanedIds, pnlLast, pnlPrev, prevCtx, raised

evars == <<chatLimit, USERS, wallet_context, store, month, nextMid, nEv,
           ev, sends, answers, exCall, cleanup, cleanedIds, pnlLast, pnlPrev, prevCtx, raised>>

HasClientAll(u) == TRUE

\* get_client_for_user(user_id) is not None
HasClient(u) == u \in USERS

EInit == /\ chatLimit \in ChatLimits
         /\ USERS \in UserSets
         /\ wallet_context = [u \in Users |-> NoCtx]
         /\ store \in {[u \in Users |-> IF HasClient(u) THEN r ELSE NoRecord] : r \in InitRecords}
         /\ month = 1
         /\ nextMid = 1
         /\ nEv = 0
         /\ ev = NoEvent
         /\ sends = <<>>
         /\ answers = <<>>
         /\ exCall = FALSE
         /\ cleanup = <<>>
         /\ cleanedIds = {}
         /\ pnlLast = [u \in Users |-> NoPnl]
         /\ pnlPrev = [u \in Users |-> NoPnl]
         /\ prevCtx = wallet_context
         /\ raised = FALSE

\* schedule_cleanup(chat_id, msg_ids, ...)
Schedule(chat, ids) ==
    /\ cleanup' = <<[chat |-> chat, ids |-> ids]>>
    /\ cleanedIds' = cleanedIds \cup {ids[i] : i \in DOMAIN ids}

NoSchedule == cleanup' = <<>> /\ UNCHANGED cleanedIds

\* wallet_context[user_id] = {...}
RememberMenuFirst(wc, u, ctx) == IF wc[u].present THEN wc ELSE [wc EXCEPT ![u] = ctx]

RememberMenu(wc, u, ctx) == [wc EXCEPT ![u] = ctx]

MsgEvent(chat, u, t) == [kind |-> "msg", chat |-> chat, user |-> u, text |-> t, data |-> ""]
CbEvent(chat, u, d) == [kind |-> "cb", chat |-> chat, user |-> u, text |-> <<>>, data |-> d]

\* Start of handling one update; umid = nextMid is the user's message id
\* and nextMid + 1 the id Telegram gives the bot's reply; r: an exception
\* leaves the handler.
BeginEvent(e, r) ==
    /\ raised' = r
    /\ nEv < MaxEvents
    /\ nEv' = nEv + 1
    /\ ev' = e
    /\ nextMid' = nextMid + 2
    /\ prevCtx' = wallet_context

\* Message from a chat other than TELEGRAM_CHAT_ID: `continue`.
MsgBlocked ==
    \E chat \in Chats, u \in Users, t \in Texts :
      /\ ChatBlocked(chatLimit, chat)
      /\ BeginEvent(MsgEvent(chat, u, t), FALSE)
      /\ sends' = <<>> /\ answers' = <<>> /\ exCall' = FALSE /\ NoSchedule
      /\ UNCHANGED <<chatLimit, USERS, wallet_context, store, month, pnlLast, pnlPrev>>

\* /commands, /comandos; then /ids, /id: reply, cleanup of both messages.
MsgCommandsOrIds ==
    \E chat \in Chats, u \in Users, t \in CommandsOrIdsTexts, so \in SendOutcomes :
      LET tl == TextL[t]
          ok == so = "ok"
      IN
      /\ ~ChatBlocked(chatLimit, chat)
      /\ BeginEvent(MsgEvent(chat, u, t), so = "raise")
      /\ sends' = <<[chat |-> chat, text |-> IF IsCommandsCmd(tl) THEN "commands" ELSE "ids", ok |-> ok]>>
      /\ answers' = <<>> /\ exCall' = FALSE
      /\ IF ok THEN Schedule(chat, <<nextMid, nextMid + 1>>) ELSE NoSchedule
      /\ UNCHANGED <<chatLimit, USERS, wallet_context, store, month, pnlLast, pnlPrev>>

\* /pnl, /mensal: fn_pnl(user_id) -> compute_mtd_pnl_for_user, reply,
\* cleanup of both messages.  res: the first compute_trade_metrics found
\* a wallet snapshot ("ok"), returned an error ("err") or raised
\* ("raise1"), or the baseline was computed and the second
\* compute_trade_metrics of fn_pnl raised ("raise2"); w is the
\* totalWalletBalance; saveOk: save_monthly_data's write succeeded (it
\* swallows a failing write).
MsgPnl ==
    \E chat \in Chats, u \in Users, t \in PnlTexts, so \in SendOutcomes,
       res \in {"ok", "err", "raise1", "raise2"}, w \in Wallets, saveOk \in BOOLEAN :
      LET newRec == compute_mtd_baseline(store[u], month, w)
          runs == HasClient(u) /\ res \in {"ok", "raise2"}
          raises == HasClient(u) /\ res \in {"raise1", "raise2"}
          ok == so = "ok"
      IN
      /\ ~ChatBlocked(chatLimit, chat)
      /\ (~HasClient(u) => res = "ok")
      /\ (~runs => (saveOk /\ w = 2))
      /\ (raises => ok)
      /\ BeginEvent(MsgEvent(chat, u, t), raises \/ so = "raise")
      /\ sends' = IF raises THEN <<>>
                  ELSE <<[chat |-> chat, text |-> IF ~HasClient(u) THEN "no_api"
                                                  ELSE IF res = "ok" THEN "pnl" ELSE "bybit_err",
                          ok |-> ok]>>
      /\ answers' = <<>>
      /\ exCall' = HasClient(u)
      /\ IF runs
         THEN /\ store' = IF saveOk THEN [store EXCEPT ![u] = newRec] ELSE store
              /\ pnlPrev' = [pnlPrev EXCEPT ![u] = pnlLast[u]]
              /\ pnlLast' = [pnlLast EXCEPT ![u] = [month |-> month, start |-> MtdStart(newRec, w), wallet |-> w]]
         ELSE UNCHANGED <<store, pnlLast, pnlPrev>>
      /\ IF ok /\ ~raises THEN Schedule(chat, <<nextMid, nextMid + 1>>) ELSE NoSchedule
      /\ UNCHANGED <<chatLimit, USERS, wallet_context, month>>

\* /wallet, /saldo: menu; the context remembers command and menu ids.
MsgWallet ==
    \E chat \in Chats, u \in Users, t \in WalletTexts, so \in SendOutcomes :
      LET ok == so = "ok" IN
      /\ ~ChatBlocked(chatLimit, chat)
      /\ BeginEvent(MsgEvent(chat, u, t), so = "raise")
      /\ sends' = <<[chat |-> chat, text |-> IF HasClient(u) THEN "menu" ELSE "no_api", ok |-> ok]>>
      /\ answers' = <<>> /\ exCall' = FALSE /\ NoSchedule
      /\ IF HasClient(u) /\ ok
         THEN wallet_context' = RememberMenu(wallet_context, u,
                 [present |-> TRUE, cmd |-> nextMid, menu |-> nextMid + 1, chat |-> chat])
         ELSE UNCHANGED wallet_context
      /\ UNCHANGED <<chatLimit, USERS, store, month, pnlLast, pnlPrev>>

\* Any other text: no branch matches.
MsgOther ==
    \E chat \in Chats, u \in Users, t \in OtherTexts :
      /\ ~ChatBlocked(chatLimit, chat)
      /\ BeginEvent(MsgEvent(chat, u, t), FALSE)
      /\ sends' = <<>> /\ answers' = <<>> /\ exCall' = FALSE /\ NoSchedule
      /\ UNCHANGED <<chatLimit, USERS, wallet_context, store, month, pnlLast, pnlPrev>>

\* Callback: telegram_answer_callback(cq_id), then the chat limit, which
\* answers the same callback a second time with an alert; ar: that second
\* request raises.
CbBlocked ==
    \E chat \in Chats, u \in Users, d \in CbTokens, ar \in BOOLEAN :
      /\ ChatBlocked(chatLimit, chat)
      /\ BeginEvent(CbEvent(chat, u, d), ar)
      /\ answers' = <<"", "Invalid chat.">>
      /\ sends' = <<>> /\ exCall' = FALSE /\ NoSchedule
      /\ UNCHANGED <<chatLimit, USERS, wallet_context, store, month, pnlLast, pnlPrev>>

\* Callback whose first telegram_answer_callback raises: nothing else
\* of the handler runs.
CbAnswerRaises ==
    \E chat \in Chats, u \in Users, d \in CbTokens :
      /\ BeginEvent(CbEvent(chat, u, d), TRUE)
      /\ answers' = <<"">>
      /\ sends' = <<>> /\ exCall' = FALSE /\ NoSchedule
      /\ UNCHANGED <<chatLimit, USERS, wallet_context, store, month, pnlLast, pnlPrev>>

\* Callback from a user without credentials.
CbNoClient ==
    \E chat \in Chats, u \in Users, d \in CbTokens, so \in SendOutcomes :
      LET ok == so = "ok" IN
      /\ ~ChatBlocked(chatLimit, chat)
      /\ ~HasClient(u)
      /\ BeginEvent(CbEvent(chat, u, d), so = "raise")
      /\ answers' = <<"">>
      /\ sends' = <<[chat |-> chat, text |-> "no_api", ok |-> ok]>>
      /\ exCall' = FALSE /\ NoSchedule
      /\ UNCHANGED <<chatLimit, USERS, wallet_context, store, month, pnlLast, pnlPrev>>

\* Text of the callback reply: fn_open_positions / fn_free_balance /
\* fn_in_trade_cost (an error text when compute_trade_metrics fails), or
\* "Unknown option." for any other token.
CallbackReply(d, mok) ==
    CASE d = "pos:open" -> IF mok THEN "positions" ELSE "bybit_err"
      [] d = "cap:free" -> IF mok THEN "free" ELSE "bybit_err"
      [] d = "cap:trade" -> IF mok THEN "trade" ELSE "bybit_err"
      [] OTHER -> "Unknown option."

\* wallet_context.pop(user_id, None)
ConsumeContextKeep(wc, u) == wc

ConsumeContext(wc, u) == [wc EXCEPT ![u] = NoCtx]

IsKnownTokenAll(d) == TRUE

IsKnownToken(d) == d \in {"pos:open", "cap:free", "cap:trade"}

\* Callback from a configured user: reply, then consume the user's
\* /wallet context if the reply was sent.
CbDispatch ==
    \E chat \in Chats, u \in Users, d \in CbTokens, so \in SendOutcomes, mok \in BOOLEAN :
      LET ctx == wallet_context[u]
          rid == nextMid + 1
          ok == so = "ok"
      IN
      /\ ~ChatBlocked(chatLimit, chat)
      /\ HasClient(u)
      /\ (~IsKnownToken(d) => mok)
      /\ BeginEvent(CbEvent(chat, u, d), so = "raise")
      /\ answers' = <<"">>
      /\ sends' = <<[chat |-> chat, text |-> CallbackReply(d, mok), ok |-> ok]>>
      /\ exCall' = IsKnownToken(d)
      /\ IF ok /\ ctx.present
         THEN /\ Schedule(ctx.chat, <<ctx.cmd, ctx.menu, rid>>)
              /\ wallet_context' = ConsumeContext(wallet_context, u)
         ELSE /\ NoSchedule
              /\ UNCHANGED wallet_context
      /\ UNCHANGED <<chatLimit, USERS, store, month, pnlLast, pnlPrev>>

\* Callback with a known token from a configured user whose Bybit request
\* raises inside fn_open_positions / fn_free_balance / fn_in_trade_cost:
\* no reply, the context stays.
CbDispatchRaises ==
    \E chat \in Chats, u \in Users, d \in CbTokens :
      /\ ~ChatBlocked(chatLimit, chat)
      /\ HasClient(u)
      /\ IsKnownToken(d)
      /\ BeginEvent(CbEvent(chat, u, d), TRUE)
      /\ answers' = <<"">>
      /\ sends' = <<>> /\ exCall' = TRUE /\ NoSchedule
      /\ UNCHANGED <<chatLimit, USERS, wallet_context, store, month, pnlLast, pnlPrev>>

\* current_month_key() moves to the next month.
MonthPasses ==
    /\ month < MaxMonth
    /\ month' = month + 1
    /\ ev' = NoEvent /\ sends' = <<>> /\ answers' = <<>> /\ exCall' = FALSE /\ NoSchedule
    /\ prevCtx' = wallet_context
    /\ raised' = FALSE
    /\ UNCHANGED <<chatLimit, USERS, wallet_context, store, nextMid, nEv, pnlLast, pnlPrev>>

\* ------------------------------------------------------------------
\* BybitClient.wallet_best and BybitClient.open_positions_all.  A
\* signed GET answers retCode 0 with a list, or a retCode != 0 with a
\* retMsg; an error string is modelled by its retCode and the category
\* (and settle coin) it names.
\* ------------------------------------------------------------------

MaxList == 1

AccountTypes == <<"UNIFIED", "CONTRACT", "SPOT">>
\* failing wallet-balance replies, by retCode
FailCodes == {"ret10001", "ret10003"}
RetCode(r) == CASE r = "ret10001" -> 10001 [] r = "ret10003" -> 10003
\* wallet-balance reply: retCode 0 with an empty or non-empty list, or a failure
WalletReplies == {"empty", "list"} \cup FailCodes

NoWalletErr == [kind |-> "none", code |-> 0, acct |-> ""]

\* wallet_best, loop over the account types from index i on
RECURSIVE WalletBestFrom(_, _, _)
WalletBestFrom(rep, i, last) ==
    IF i > Len(AccountTypes) THEN [acc |-> "", err |-> last, acct |-> ""]
    ELSE LET acct == AccountTypes[i] IN
         IF rep[acct] \in {"empty", "list"}
         THEN IF rep[acct] = "list"
              THEN [acc |-> acct, err |-> NoWalletErr, acct |-> acct]
              ELSE [acc |-> "", err |-> [kind |-> "empty", code |-> 0, acct |-> acct], acct |-> acct]
         ELSE WalletBestFrom(rep, i + 1, [kind |-> "fail", code |-> RetCode(rep[acct]), acct |-> acct])

\* Variant that goes on to the next account type after an empty list.
RECURSIVE WalletBestSkipEmptyFrom(_, _, _)
WalletBestSkipEmptyFrom(rep, i, last) ==
    IF i > Len(AccountTypes) THEN [acc |-> "", err |-> last, acct |-> ""]
    ELSE LET acct == AccountTypes[i] IN
         IF rep[acct] = "list"
         THEN [acc |-> acct, err |-> NoWalletErr, acct |-> acct]
         ELSE WalletBestSkipEmptyFrom(rep, i + 1,
                IF rep[acct] = "empty" THEN [kind |-> "empty", code |-> 0, acct |-> acct]
                ELSE [kind |-> "fail", code |-> RetCode(rep[acct]), acct |-> acct])

wallet_best_skip_empty(rep) == WalletBestSkipEmptyFrom(rep, 1, [kind |-> "none", code |-> 0, acct |-> ""])

wallet_best(rep) == WalletBestFrom(rep, 1, [kind |-> "none", code |-> 0, acct |-> ""])

VARIABLES wrep, wres, wpc

wvars == <<wrep, wres, wpc>>

NoWalletRes == [acc |-> "", err |-> NoWalletErr, acct |-> ""]

WInit == /\ wrep \in [{AccountTypes[i] : i \in 1..3} -> WalletReplies]
         /\ wres = NoWalletRes
         /\ wpc = "init"

WIdle == /\ wrep = [a \in {AccountTypes[i] : i \in 1..3} |-> "list"]
         /\ wres = NoWalletRes
         /\ wpc = "init"

WalletBestCall ==
    /\ wpc = "init"
    /\ wres' = wallet_best(wrep)
    /\ wpc' = "done"
    /\ UNCHANGED wrep

Attempts == <<[category |-> "linear", settle |-> "USDT"], [category |-> "linear", settle |-> "USDC"],
              [category |-> "inverse", settle |-> "BTC"], [category |-> "inverse", settle |-> "USDT"]>>
\* "size" strings of the position list entries
SizeStrs == {"", "2", "-1", "abc"}
SizeLists == UNION {[1..n -> SizeStrs] : n \in 0..MaxList}
PositionReplies == {[ok |-> FALSE, code |-> c, list |-> <<>>] : c \in {10001}}
                   \cup {[ok |-> TRUE, code |-> 0, list |-> l] : l \in SizeLists}

\* float(p.get("size") or 0) is defined (no exception) ...
SizeParses(str) == str \in {"", "2", "-1"}
\* ... and its value
SizeValue(str) == CASE str = "" -> 0 [] str = "2" -> 2 [] str = "-1" -> -1

NoPosErr == [kind |-> "none", code |-> 0, pair |-> 0]

\* for p in lst: append the entries whose size parses to a value > 0
KeptPositions(i, lst) ==
    LET idx == SetToSortedSeq({j \in DOMAIN lst : SizeParses(lst[j]) /\ SizeValue(lst[j]) > 0})
    IN [k \in DOMAIN idx |-> [pair |-> i, idx |-> idx[k], size |-> lst[idx[k]]]]

\* open_positions_all, loop over the attempts from index i on
RECURSIVE OpenPositionsFrom(_, _, _, _)
OpenPositionsFrom(rep, i, positions, last_err) ==
    IF i > Len(Attempts)
    THEN IF positions = <<>> /\ last_err.kind # "none"
         THEN [positions |-> <<>>, none |-> TRUE, err |-> last_err]
         ELSE [positions |-> positions, none |-> FALSE, err |-> NoPosErr]
    ELSE IF ~rep[i].ok
         THEN OpenPositionsFrom(rep, i + 1, positions, [kind |-> "fail", code |-> rep[i].code, pair |-> i])
         ELSE OpenPositionsFrom(rep, i + 1, positions \o KeptPositions(i, rep[i].list), last_err)

\* Variant that stops at the first failing attempt.
RECURSIVE OpenPositionsBreakFrom(_, _, _, _)
OpenPositionsBreakFrom(rep, i, positions, last_err) ==
    IF i > Len(Attempts) \/ last_err.kind # "none"
    THEN IF positions = <<>> /\ last_err.kind # "none"
         THEN [positions |-> <<>>, none |-> TRUE, err |-> last_err]
         ELSE [positions |-> positions, none |-> FALSE, err |-> NoPosErr]
    ELSE IF ~rep[i].ok
         THEN OpenPositionsBreakFrom(rep, i + 1, positions, [kind |-> "fail", code |-> rep[i].code, pair |-> i])
         ELSE OpenPositionsBreakFrom(rep, i + 1, positions \o KeptPositions(i, rep[i].list), last_err)

open_positions_all_break(rep) == OpenPositionsBreakFrom(rep, 1, <<>>, NoPosErr)

open_positions_all(rep) == OpenPositionsFrom(rep, 1, <<>>, NoPosErr)

VARIABLES prep, pres, opc

ovars == <<prep, pres, opc>>

NoPosRes == [positions |-> <<>>, none |-> FALSE, err |-> NoPosErr]

OInit == /\ prep \in [1..Len(Attempts) -> PositionReplies]
         /\ pres = NoPosRes
         /\ opc = "init"

OIdle == /\ prep = [i \in 1..Len(Attempts) |-> [ok |-> TRUE, code |-> 0, list |-> <<>>]]
         /\ pres = NoPosRes
         /\ opc = "init"

OpenPositionsCall ==
    /\ opc = "init"
    /\ pres' = open_positions_all(prep)
    /\ opc' = "done"
    /\ UNCHANGED prep

\* ------------------------------------------------------------------
\* BTC price alerts (send_btc_update, load/save_btc_last_sent).  The
\* clock is int(time.time()); btc_last_sent_ts is the in-memory value,
\* btcFile the content of btc_last_sent.txt (0 when absent).
\* ------------------------------------------------------------------

MaxCycles == 3

BTC_ALERT_SECONDS == 2700
\* seconds that pass between two dispatcher cycles (long poll + sleep)
CycleGaps == {31, 1400, 2700}

\* Cooldown test of send_btc_update (force = False):
\* btc_last_sent_ts and (now_ts - btc_last_sent_ts) < BTC_ALERT_SECONDS
CooldownActive(last, now) == last # 0 /\ now - last < BTC_ALERT_SECONDS

\* btc_last_sent_ts after the send: now_ts only when telegram_send is ok
BtcLastAfterAlways(ok, last, now) == now

BtcLastAfter(ok, last, now) == IF ok THEN now ELSE last

VARIABLES btcChat, btc_last_sent_ts, btcFile, clock, bpc, cycles, lastOkSend, bstep

bvars == <<btcChat, btc_last_sent_ts, btcFile, clock, bpc, cycles, lastOkSend, bstep>>

NoBtcStep == [force |-> FALSE, sent |-> FALSE, ok |-> FALSE, before |-> 0]

\* Before main(): the file holds the time of an earlier run's last
\* successful alert, or is absent.
BInit == /\ btcChat \in BOOLEAN
         /\ btc_last_sent_ts = 0
         /\ btcFile \in {0, 1000}
         /\ clock = 3000
         /\ bpc = "start"
         /\ cycles = 0
         /\ lastOkSend = btcFile
         /\ bstep = NoBtcStep

BIdle == /\ btcChat = FALSE
         /\ btc_last_sent_ts = 0
         /\ btcFile = 0
         /\ clock = 3000
         /\ bpc = "start"
         /\ cycles = 0
         /\ lastOkSend = 0
         /\ bstep = NoBtcStep

\* send_btc_update(force) with the in-memory timestamp `mem` at time now;
\* priceOk: get_btc_price returned a price; ok: telegram_send succeeded;
\* saveOk: the file write did not raise.
SendBtcUpdate(force, mem, now, priceOk, ok, saveOk) ==
    LET due == btcChat /\ (force \/ ~CooldownActive(mem, now)) /\ priceOk
    IN /\ btc_last_sent_ts' = IF due THEN BtcLastAfter(ok, mem, now) ELSE mem
       /\ btcFile' = IF due /\ ok /\ saveOk THEN now ELSE btcFile
       /\ lastOkSend' = IF due /\ ok THEN now ELSE lastOkSend
       /\ bstep' = [force |-> force, sent |-> due, ok |-> due /\ ok, before |-> lastOkSend]

\* main(): load_btc_last_sent(), then send_btc_update(force=True).
BtcStartup ==
    /\ bpc = "start"
    /\ bpc' = "loop"
    /\ \E priceOk, ok, saveOk \in BOOLEAN :
         SendBtcUpdate(TRUE, btcFile, clock, priceOk, ok, saveOk)
    /\ UNCHANGED <<btcChat, clock, cycles>>

\* One pass of the while loop: time passes, then send_btc_update(force=False).
BtcCycle ==
    /\ bpc = "loop"
    /\ cycles < MaxCycles
    /\ cycles' = cycles + 1
    /\ \E gap \in CycleGaps, priceOk, ok, saveOk \in BOOLEAN :
         /\ clock' = clock + gap
         /\ SendBtcUpdate(FALSE, btc_last_sent_ts, clock + gap, priceOk, ok, saveOk)
    /\ UNCHANGED <<btcChat, bpc>>

\* ------------------------------------------------------------------
\* Specifications and properties
\* ------------------------------------------------------------------

\* Event-handling variables at their initial values, with the chat limit
\* unset and no baseline file, while another part is checked.
EIdle == EInit /\ chatLimit = "" /\ USERS = {1} /\ store = [u \in Users |-> NoRecord]

\* User 1 has credentials, user 2 has none.
EventInit == EInit /\ USERS = {1} /\ PInit /\ MIdle /\ WIdle /\ OIdle /\ BIdle

EventNext ==
    \/ MsgBlocked /\ UNCHANGED <<mvars, pvars, wvars, ovars, bvars>>
    \/ MsgCommandsOrIds /\ UNCHANGED <<mvars, pvars, wvars, ovars, bvars>>
    \/ MsgPnl /\ UNCHANGED <<mvars, pvars, wvars, ovars, bvars>>
    \/ MsgWallet /\ UNCHANGED <<mvars, pvars, wvars, ovars, bvars>>
    \/ MsgOther /\ UNCHANGED <<mvars, pvars, wvars, ovars, bvars>>
    \/ CbBlocked /\ UNCHANGED <<mvars, pvars, wvars, ovars, bvars>>
    \/ CbAnswerRaises /\ UNCHANGED <<mvars, pvars, wvars, ovars, bvars>>
    \/ CbNoClient /\ UNCHANGED <<mvars, pvars, wvars, ovars, bvars>>
    \/ CbDispatch /\ UNCHANGED <<mvars, pvars, wvars, ovars, bvars>>
    \/ CbDispatchRaises /\ UNCHANGED <<mvars, pvars, wvars, ovars, bvars>>
    \/ MonthPasses /\ UNCHANGED <<mvars, pvars, wvars, ovars, bvars>>

allvars == <<mvars, pvars, evars, wvars, ovars, bvars>>

Spec == EventInit /\ [][EventNext]_allvars

\* C3: two consecutive successful month-to-date queries of a user with
\* the same month key return the same baseline start, even when the
\* wallet balance differs between them; the file keeps one record per
\* user, holding one month.
BaselineIdempotent ==
    \A u \in Users :
      /\ (pnlPrev[u].month # 0 /\ pnlPrev[u].month = pnlLast[u].month)
           => pnlPrev[u].start = pnlLast[u].start
      /\ store[u].present => store[u].month \in 1..MaxMonth

\* C5 (original): with an allowed chat configured, every event from any
\* other chat is dropped without a reply, except /ids (/id), which is
\* always answered.
OtherChatDroppedExceptIds ==
    (ev.kind # "none" /\ chatLimit # "" /\ ev.chat # chatLimit) =>
        IF ev.kind = "msg" /\ IsIdsCmd(Lower(Strip(ev.text)))
        THEN sends # <<>>
        ELSE sends = <<>>

\* C5 (amended): with an allowed chat configured, every event from any
\* other chat, /ids included, gets no sendMessage reply, makes no
\* exchange call and schedules no cleanup; a callback from there only
\* gets answerCallbackQuery calls.
OtherChatDropped ==
    (ev.kind # "none" /\ chatLimit # "" /\ ev.chat # chatLimit) =>
        /\ sends = <<>>
        /\ ~exCall
        /\ cleanup = <<>>
        /\ (ev.kind = "msg" => answers = <<>>)

OtherChatDroppedWitness ==
    /\ ev.kind = "msg"
    /\ chatLimit # ""
    /\ ev.chat # chatLimit
    /\ IsIdsCmd(Lower(Strip(ev.text)))

\* C6 (original): a callback with an unrecognized token is answered with
\* "Unknown option." and causes no exchange call.
UnknownTokenReply ==
    (ev.kind = "cb" /\ ev.data \notin {"pos:open", "cap:free", "cap:trade"}) =>
        /\ Len(sends) = 1
        /\ sends[1].chat = ev.chat /\ sends[1].text = "Unknown option."
        /\ ~exCall

\* C6 (amended): a callback with an unrecognized token never causes an
\* exchange call; when it comes from the allowed chat (or no chat limit
\* is set) and from a user with credentials it is answered with
\* "Unknown option." (a sendMessage request is made), unless its
\* answerCallbackQuery request raised before that.
UnknownTokenReplyAllowed ==
    (ev.kind = "cb" /\ ev.data \notin {"pos:open", "cap:free", "cap:trade"}) =>
        /\ ~exCall
        /\ ((chatLimit = "" \/ ev.chat = chatLimit) /\ ev.user \in USERS
            /\ ~(raised /\ sends = <<>>))
              => /\ Len(sends) = 1
                 /\ sends[1].chat = ev.chat /\ sends[1].text = "Unknown option."

UnknownTokenWitness ==
    /\ ev.kind = "cb"
    /\ ev.data \notin {"pos:open", "cap:free", "cap:trade"}
    /\ chatLimit # ""
    /\ ev.chat = chatLimit
    /\ sends # <<>>

\* C7: every inbound callback is answered (answerCallbackQuery) exactly
\* once, on every path.
CallbackAnsweredOnce ==
    ev.kind = "cb" => Len(answers) = 1

\* C8: a callback whose reply is sent while the user has a /wallet
\* context schedules cleanup of exactly the command, menu and result
\* message ids in the context's chat and removes the context; no message
\* id is ever scheduled for cleanup twice.
CallbackCleanupStep ==
    LET u == ev'.user
        ctx == wallet_context[u]
    IN (ev'.kind = "cb" /\ sends' # <<>> /\ sends'[1].ok /\ ctx.present)
         => /\ cleanup' = <<[chat |-> ctx.chat, ids |-> <<ctx.cmd, ctx.menu, nextMid' - 1>>]>>
            /\ ~wallet_context'[u].present

CleanupOnce ==
    \A i \in DOMAIN cleanup' :
      \A j \in DOMAIN cleanup'[i].ids : cleanup'[i].ids[j] \notin cleanedIds

CallbackCleanup ==
    [][CallbackCleanupStep /\ CleanupOnce]_allvars

CallbackCleanupWitness ==
    /\ ev.kind = "cb"
    /\ cleanup # <<>>
    /\ Len(cleanup[1].ids) = 3
    /\ nEv = MaxEvents

MetricsInit == MInit /\ PInit /\ EIdle /\ WIdle /\ OIdle /\ BIdle

MetricsNext == \/ ComputeMetrics /\ UNCHANGED <<pvars, evars, wvars, ovars, bvars>>
               \/ ShowReplies /\ UNCHANGED <<pvars, evars, wvars, ovars, bvars>>

SpecMetrics == MetricsInit /\ [][MetricsNext]_allvars

PollInit == PInit /\ MIdle /\ EIdle /\ WIdle /\ OIdle /\ BIdle

PollNext == \/ NewUpdate /\ UNCHANGED <<mvars, evars, wvars, ovars, bvars>>
            \/ PollOk /\ UNCHANGED <<mvars, evars, wvars, ovars, bvars>>
            \/ PollFail /\ UNCHANGED <<mvars, evars, wvars, ovars, bvars>>
            \/ DispatchUpdate /\ UNCHANGED <<mvars, evars, wvars, ovars, bvars>>
            \/ HandlerRaises /\ UNCHANGED <<mvars, evars, wvars, ovars, bvars>>
            \/ EndIteration /\ UNCHANGED <<mvars, evars, wvars, ovars, bvars>>

SpecPoll == PollInit /\ [][PollNext]_allvars

WalletInit == WInit /\ MIdle /\ PInit /\ EIdle /\ OIdle /\ BIdle

WalletNext == WalletBestCall /\ UNCHANGED <<mvars, pvars, evars, ovars, bvars>>

SpecWallet == WalletInit /\ [][WalletNext]_allvars

PositionsInit == OInit /\ MIdle /\ PInit /\ EIdle /\ WIdle /\ BIdle

PositionsNext == OpenPositionsCall /\ UNCHANGED <<mvars, pvars, evars, wvars, bvars>>

SpecPositions == PositionsInit /\ [][PositionsNext]_allvars

\* C9 (original): wallet_best returns the first of UNIFIED, CONTRACT, SPOT
\* whose reply is successful and non-empty; only when every category
\* fails or is empty does it return an error, which carries the last
\* failure of each category.
WalletBestFirstNonEmpty ==
    wpc = "done" =>
      LET good == {i \in 1..3 : wrep[AccountTypes[i]] = "list"}
      IN IF good # {}
         THEN LET f == CHOOSE i \in good : \A j \in good : i <= j
              IN wres.acc = AccountTypes[f] /\ wres.err.kind = "none"
         ELSE /\ wres.acc = ""
              /\ \A i \in 1..3 : wrep[AccountTypes[i]] \in FailCodes =>
                   (wres.err.kind = "fail" /\ wres.err.acct = AccountTypes[i]
                    /\ wres.err.code = RetCode(wrep[AccountTypes[i]]))

\* C9 (amended): wallet_best tries UNIFIED, CONTRACT, SPOT in order and
\* passes over the failing ones; the first successful reply ends the
\* search: its first entry if the list is non-empty, else the error
\* "Empty response" for that category.  When all three fail, the error
\* is the failure of the last one (SPOT).
WalletBestFirstSuccess ==
    wpc = "done" =>
      LET good == {i \in 1..3 : wrep[AccountTypes[i]] \in {"empty", "list"}}
      IN IF good # {}
         THEN LET f == CHOOSE i \in good : \A j \in good : i <= j
              IN IF wrep[AccountTypes[f]] = "list"
                 THEN wres.acc = AccountTypes[f] /\ wres.err.kind = "none" /\ wres.acct = AccountTypes[f]
                 ELSE wres.acc = "" /\ wres.err.kind = "empty" /\ wres.acct = AccountTypes[f]
         ELSE wres = [acc |-> "", acct |-> "",
                      err |-> [kind |-> "fail", code |-> RetCode(wrep["SPOT"]), acct |-> "SPOT"]]

WalletBestWitness ==
    /\ wpc = "done"
    /\ wrep["UNIFIED"] \in FailCodes
    /\ wres.err.kind = "empty"
    /\ wrep["SPOT"] = "list"

\* C10: open_positions_all returns every position with size > 0 of every
\* (category, settle coin) pair that succeeds; a failing pair only
\* replaces the remembered last error; an error is returned only when
\* the aggregate is empty and some pair failed.
PositionsAggregated ==
    opc = "done" =>
      LET okPairs == {i \in 1..Len(Attempts) : prep[i].ok}
          failed == {i \in 1..Len(Attempts) : ~prep[i].ok}
          wanted == UNION {{[pair |-> i, idx |-> j, size |-> prep[i].list[j]] :
                              j \in {k \in DOMAIN prep[i].list : prep[i].list[k] = "2"}} : i \in okPairs}
      IN /\ {pres.positions[k] : k \in DOMAIN pres.positions} = wanted
         /\ Len(pres.positions) = Cardinality(wanted)
         /\ pres.none <=> (wanted = {} /\ failed # {})
         /\ pres.none => pres.err.pair = (CHOOSE i \in failed : \A j \in failed : j <= i)
         /\ ~pres.none => pres.err.kind = "none"

PositionsAggregatedWitness ==
    /\ opc = "done"
    /\ \E i \in 1..Len(Attempts) :
         /\ ~prep[i].ok
         /\ \E k \in DOMAIN pres.positions : pres.positions[k].pair > i
    /\ \E i \in 1..Len(Attempts) : prep[i].ok /\ prep[i].list = <<>>

BtcInit == BInit /\ MIdle /\ PInit /\ EIdle /\ WIdle /\ OIdle

BtcNext == \/ BtcStartup /\ UNCHANGED <<mvars, pvars, evars, wvars, ovars>>
           \/ BtcCycle /\ UNCHANGED <<mvars, pvars, evars, wvars, ovars>>

SpecBtc == BtcInit /\ [][BtcNext]_allvars

\* C11: a non-forced alert is sent only with a broadcast target
\* configured and BTC_ALERT_SECONDS elapsed since the last successful
\* send; the in-memory and persisted last-sent timestamps change only on
\* a successful send (to its time); a forced send skips the cooldown
\* but also persists only on success.
BtcAlertStep ==
    /\ bstep'.sent => btcChat
    /\ (bstep'.sent /\ ~bstep'.force)
         => (bstep'.before = 0 \/ clock' - bstep'.before >= BTC_ALERT_SECONDS)
    /\ btc_last_sent_ts' # (IF bpc = "start" THEN btcFile ELSE btc_last_sent_ts) => bstep'.ok
    /\ btcFile' # btcFile => bstep'.ok
    /\ bstep'.ok => (btc_last_sent_ts' = clock' /\ lastOkSend' = clock')

BtcAlertCooldown == [][BtcAlertStep]_allvars

BtcAlertCooldownWitness ==
    /\ bstep.sent
    /\ ~bstep.force
    /\ bstep.ok
    /\ bstep.before # 0
    /\ btcFile = clock

\* C12: the month-to-date percent is (current - start) / start * 100 with
\* current = equity_mtm = wallet_balance + pnl_open (0 for no positions);
\* it is 0 when the baseline start is <= 0 and never divides by zero.
MtdPercent ==
    mpc = "shown" =>
      /\ shown.pnl.current_equity = F(snap.twb) + (IF upls = <<>> THEN 0 ELSE SumSeq(upls))
      /\ shown.pct.den > 0
      /\ startw <= 0 => shown.pct.num = 0
      /\ startw > 0 =>
           shown.pct.num * startw = (shown.pnl.current_equity - startw) * 100 * shown.pct.den

MtdPercentWitness ==
    /\ mpc = "shown"
    /\ startw > 0
    /\ shown.pct.num < 0
    /\ upls # <<>>

\* C13 (original): /wallet, /pnl (and aliases) and the wallet callbacks
\* from a user without credentials get the fixed "No API configured"
\* reply and make no exchange call.
NeedsCredentials(e) ==
    \/ e.kind = "msg" /\ e.text \in PnlTexts \cup WalletTexts
    \/ e.kind = "cb"

NoCredentialsReply ==
    (NeedsCredentials(ev) /\ ev.user \notin USERS) =>
        /\ Len(sends) = 1
        /\ sends[1].chat = ev.chat /\ sends[1].text = "no_api"
        /\ ~exCall

\* C13 (amended): the same, for such commands and callbacks coming from
\* the allowed chat (or with no chat limit set) and, for a callback,
\* whose answerCallbackQuery request did not raise; from any other chat
\* they get no reply and make no exchange call either.
NoCredentialsReplyAllowed ==
    (NeedsCredentials(ev) /\ ev.user \notin USERS) =>
        /\ ~exCall
        /\ ((chatLimit = "" \/ ev.chat = chatLimit) /\ ~(raised /\ sends = <<>>))
             => (Len(sends) = 1 /\ sends[1].chat = ev.chat /\ sends[1].text = "no_api")

NoCredentialsWitness ==
    /\ ev.kind = "msg"
    /\ ev.text \in PnlTexts
    /\ ev.user \notin USERS
    /\ chatLimit = ev.chat
    /\ sends # <<>>

\* Both users have credentials; /wallet commands and callbacks of either
\* user, with other texts in between.  The other handlers of main()
\* leave wallet_context unchanged.
ContextInit == EInit /\ USERS = {1, 2} /\ PInit /\ MIdle /\ WIdle /\ OIdle /\ BIdle

ContextNext ==
    \/ MsgWallet /\ UNCHANGED <<mvars, pvars, wvars, ovars, bvars>>
    \/ MsgOther /\ UNCHANGED <<mvars, pvars, wvars, ovars, bvars>>
    \/ CbBlocked /\ UNCHANGED <<mvars, pvars, wvars, ovars, bvars>>
    \/ CbAnswerRaises /\ UNCHANGED <<mvars, pvars, wvars, ovars, bvars>>
    \/ CbDispatch /\ UNCHANGED <<mvars, pvars, wvars, ovars, bvars>>
    \/ CbDispatchRaises /\ UNCHANGED <<mvars, pvars, wvars, ovars, bvars>>

SpecContext == ContextInit /\ [][ContextNext]_allvars

\* C14: each user has at most one /wallet context, the one of the most
\* recently sent menu (last write wins); a context is only created by a
\* sent menu of its own user and removed only in the step that schedules
\* cleanup of its command and menu ids; a failed result reply or a
\* callback that finds no context leaves the map unchanged.
ContextStep ==
    \A u \in Users :
      /\ (ev'.kind = "msg" /\ ev'.user = u /\ sends' # <<>> /\ sends'[1].text = "menu" /\ sends'[1].ok)
           => wallet_context'[u] = [present |-> TRUE, cmd |-> nextMid, menu |-> nextMid + 1, chat |-> ev'.chat]
      /\ (wallet_context'[u] # wallet_context[u] /\ wallet_context'[u].present)
           => (ev'.kind = "msg" /\ ev'.user = u /\ sends'[1].text = "menu" /\ sends'[1].ok)
      /\ (wallet_context'[u] # wallet_context[u] /\ ~wallet_context'[u].present)
           => /\ Len(cleanup') = 1
              /\ cleanup'[1].chat = wallet_context[u].chat
              /\ cleanup'[1].ids[1] = wallet_context[u].cmd
              /\ cleanup'[1].ids[2] = wallet_context[u].menu
      /\ (ev'.kind = "cb" /\ (sends' = <<>> \/ ~sends'[1].ok \/ ~wallet_context[ev'.user].present))
           => wallet_context' = wallet_context

ContextLastWriteWins == [][ContextStep]_allvars

ContextLastWriteWinsWitness ==
    /\ ev.kind = "cb"
    /\ cleanup # <<>>
    /\ prevCtx[ev.user].present
    /\ ~wallet_context[ev.user].present
    /\ \E v \in Users \ {ev.user} : wallet_context[v].present /\ wallet_context[v] = prevCtx[v]

====
